---------------------------- MODULE Spec2Model ----------------------------
(***************************************************************************)
(* A model of the mustache template engine of src/mustache.go: the parser  *)
(* (ParseString, parse, parseSection, readString), name resolution         *)
(* (lookup, isEmpty, indirect), and the renderer (Render, renderTemplate,  *)
(* renderElement, renderSection, htmlEscape).                              *)
(*                                                                         *)
(* Strings are sequences of one-character strings; an offset into a Go     *)
(* string is kept 0-based as in the source (At(d, i) is d[i] of Go).       *)
(***************************************************************************)
EXTENDS Integers, Sequences, FiniteSets, TLC

VARIABLES
    data,       \* Template.data: the template source
    otag,       \* Template.otag
    ctag,       \* Template.ctag
    p,          \* Template.p: the parser's cursor (0-based offset)
    curline,    \* Template.curline
    elems,      \* Template.elems: the top-level nodes
    stack,      \* the open parseSection calls, outermost first: their sectionElement
    pc,         \* where ParseString is: "parse", "done" (Template returned), "error"
    err,        \* the parseError returned, NoError before
    rctx,       \* per Render call: the contexts it was given
    rstack,     \* per Render call: its call stack (renderTemplate / renderSection frames)
    buf,        \* per Render call: its bytes.Buffer
    rpc,        \* per Render call: "idle", "running", "done", "panicked"
    esc_in,     \* htmlEscape's argument in the escaping specification
    esc_out,    \* what htmlEscape wrote
    esc_pass    \* how many times htmlEscape has been applied

vars == <<data, otag, ctag, p, curline, elems, stack, pc, err,
          rctx, rstack, buf, rpc, esc_in, esc_out, esc_pass>>

tmplVars == <<data, otag, ctag, p, curline, elems, stack, pc, err>>
renderVars == <<rctx, rstack, buf, rpc>>
escVars == <<esc_in, esc_out, esc_pass>>

-----------------------------------------------------------------------------
(* Bounds of the model. *)

\* the longest template of the parser specification, in tokens of Tokens
MaxTokens == 4
\* the longest string handed to htmlEscape in the escaping specification
MaxEscLen == 3

-----------------------------------------------------------------------------
(* Strings. *)

At(d, i) == d[i + 1]

\* d[a:b] of Go
Slice(d, a, b) == SubSeq(d, a + 1, b)

RECURSIVE Concat(_)
Concat(ss) == IF ss = <<>> THEN <<>> ELSE Head(ss) \o Concat(Tail(ss))

\* the characters strings.TrimSpace removes, among those of the model's alphabet
SpaceChars == {" ", "\t", "\n", "\r", "\f"}

RECURSIVE TrimLeft(_)
TrimLeft(s) ==
    IF s # <<>> /\ Head(s) \in SpaceChars THEN TrimLeft(Tail(s)) ELSE s

RECURSIVE TrimRight(_)
TrimRight(s) ==
    IF s # <<>> /\ s[Len(s)] \in SpaceChars
    THEN TrimRight(SubSeq(s, 1, Len(s) - 1))
    ELSE s

TrimSpace(s) == TrimRight(TrimLeft(s))

esc_quot == <<"&", "q", "u", "o", "t", ";">>
esc_apos == <<"&", "a", "p", "o", "s", ";">>
\* the entity of & written without its &
esc_amp_bare == <<"a", "m", "p", ";">>
esc_amp == <<"&", "a", "m", "p", ";">>
esc_lt == <<"&", "l", "t", ";">>
esc_gt == <<"&", "g", "t", ";">>

\* htmlEscape's loop from index i, `last` being the start of the run not yet
\* written and w what was written so far
RECURSIVE htmlEscapeLoop(_, _, _, _)
htmlEscapeLoop(s, i, last, w) ==
    IF i >= Len(s)
    THEN w \o Slice(s, last, Len(s))
    ELSE LET c == At(s, i)
             esc == CASE c = "\"" -> esc_quot
                      [] c = "'" -> esc_apos
                      [] c = "&" -> esc_amp
                      [] c = "<" -> esc_lt
                      [] c = ">" -> esc_gt
                      [] OTHER -> <<>>
         IN  IF esc = <<>>
             THEN htmlEscapeLoop(s, i + 1, last, w)
             ELSE htmlEscapeLoop(s, i + 1, i + 1, w \o Slice(s, last, i) \o esc)

htmlEscape(s) == htmlEscapeLoop(s, 0, 0, <<>>)

-----------------------------------------------------------------------------
(* The parser. *)

\* readString's loop at index i with `newlines` counted so far; the result is
\* [eof, text, p, newlines]: on a match the text up to and including s, the
\* cursor after it and the newlines crossed; at the end of the data the rest
\* of the data, with the cursor left where it was.
RECURSIVE readStringLoop(_, _, _, _, _)
readStringLoop(d, p0, s, i, newlines) ==
    IF i + Len(s) > Len(d)
    THEN [eof |-> TRUE, text |-> Slice(d, p0, Len(d)), p |-> p0, newlines |-> 0]
    ELSE LET nl == IF At(d, i) = "\n" THEN newlines + 1 ELSE newlines
         IN  IF At(d, i) # s[1]
             THEN readStringLoop(d, p0, s, i + 1, nl)
             ELSE IF \A j \in 1 .. Len(s) - 1 : s[j + 1] = At(d, i + j)
                  THEN [eof |-> FALSE, text |-> Slice(d, p0, i + Len(s)),
                        p |-> i + Len(s), newlines |-> nl]
                  ELSE readStringLoop(d, p0, s, i + 1, nl)

readString(d, p0, s) == readStringLoop(d, p0, s, p0, 0)

\* the nodes of a template: string, *varElement, *sectionElement
TextNode(t) ==
    [type |-> "text", text |-> t, name |-> <<>>, raw |-> FALSE,
     inverted |-> FALSE, startline |-> 0, elems |-> <<>>]
varElement(name, raw) ==
    [type |-> "var", text |-> <<>>, name |-> name, raw |-> raw,
     inverted |-> FALSE, startline |-> 0, elems |-> <<>>]
sectionElement(name, inverted, startline, es) ==
    [type |-> "section", text |-> <<>>, name |-> name, raw |-> FALSE,
     inverted |-> inverted, startline |-> startline, elems |-> es]

NoError == [line |-> 0, message |-> "", name |-> <<>>]
parseError(line, message, name) == [line |-> line, message |-> message, name |-> name]

\* the close sequence looked for after an open tag at cursor q
CloseSeq(d, q, ct) ==
    IF q < Len(d) /\ At(d, q) = "{" THEN <<"}">> \o ct ELSE ct

\* the cursor after the line terminator that follows a section tag, if any
SkipNewline(d, q) ==
    IF Len(d) > q /\ At(d, q) = "\n" THEN q + 1
    ELSE IF Len(d) > q + 1 /\ At(d, q) = "\r" /\ At(d, q + 1) = "\n" THEN q + 2
    ELSE q

\* what a tag that is no section tag and no closing tag appends: nothing for a
\* comment and for a "{" tag that does not end in "}"
TagNodes(tag) ==
    CASE tag[1] = "!" -> <<>>
      [] tag[1] = "{" ->
            IF tag[Len(tag)] = "}"
            THEN <<varElement(TrimSpace(SubSeq(tag, 2, Len(tag) - 1)), TRUE)>>
            ELSE <<>>
      [] tag[1] = "&" -> <<varElement(TrimSpace(Tail(tag)), TRUE)>>
      [] OTHER -> <<varElement(tag, FALSE)>>

\* a closing tag that closes any section, whatever its name
ClosesAnySection(tag, section) == TRUE

\* parseSection's test of a closing tag: its name is the open section's
ClosesSection(tag, section) == TrimSpace(Tail(tag)) = section.name

\* append nodes to the elems of the innermost open section
AppendTop(st, nodes) ==
    [st EXCEPT ![Len(st)].elems = @ \o nodes]

\* One iteration of parse's loop (no section is open).
parse ==
    /\ pc = "parse"
    /\ stack = <<>>
    /\ LET r1 == readString(data, p, otag)
       IN  IF r1.eof
           THEN /\ elems' = Append(elems, TextNode(r1.text))
                /\ pc' = "done"
                /\ UNCHANGED <<p, curline, stack, err>>
           ELSE LET text == SubSeq(r1.text, 1, Len(r1.text) - Len(otag))
                    line1 == curline + r1.newlines
                    r2 == readString(data, r1.p, CloseSeq(data, r1.p, ctag))
                    line2 == line1 + r2.newlines
                    tag == TrimSpace(SubSeq(r2.text, 1, Len(r2.text) - Len(ctag)))
                    withText == Append(elems, TextNode(text))
                IN  IF r2.eof
                    THEN /\ elems' = withText
                         /\ p' = r1.p
                         /\ curline' = line1
                         /\ pc' = "error"
                         /\ err' = parseError(line1, "unmatched open tag", <<>>)
                         /\ UNCHANGED stack
                    ELSE IF Len(tag) = 0
                    THEN /\ elems' = withText
                         /\ p' = r2.p
                         /\ curline' = line2
                         /\ pc' = "error"
                         /\ err' = parseError(line2, "empty tag", <<>>)
                         /\ UNCHANGED stack
                    ELSE IF tag[1] \in {"#", "^"}
                    THEN /\ elems' = withText
                         /\ p' = SkipNewline(data, r2.p)
                         /\ curline' = line2
                         /\ stack' = <<sectionElement(TrimSpace(Tail(tag)),
                                                      tag[1] = "^", line2, <<>>)>>
                         /\ UNCHANGED <<pc, err>>
                    ELSE IF tag[1] = "/"
                    THEN /\ elems' = withText
                         /\ p' = r2.p
                         /\ curline' = line2
                         /\ pc' = "error"
                         /\ err' = parseError(line2, "unmatched close tag", <<>>)
                         /\ UNCHANGED stack
                    ELSE /\ elems' = withText \o TagNodes(tag)
                         /\ p' = r2.p
                         /\ curline' = line2
                         /\ UNCHANGED <<stack, pc, err>>
    /\ UNCHANGED <<data, otag, ctag>>
    /\ UNCHANGED renderVars
    /\ UNCHANGED escVars

\* One iteration of parseSection's loop, for the innermost open section; a
\* matching closing tag returns to the caller, which appends the section.
parseSection ==
    /\ pc = "parse"
    /\ stack # <<>>
    /\ LET section == stack[Len(stack)]
           r1 == readString(data, p, otag)
       IN  IF r1.eof
           THEN /\ pc' = "error"
                /\ err' = parseError(section.startline, "has no closing tag", section.name)
                /\ UNCHANGED <<p, curline, stack, elems>>
           ELSE LET text == SubSeq(r1.text, 1, Len(r1.text) - Len(otag))
                    line1 == curline + r1.newlines
                    r2 == readString(data, r1.p, CloseSeq(data, r1.p, ctag))
                    line2 == line1 + r2.newlines
                    tag == TrimSpace(SubSeq(r2.text, 1, Len(r2.text) - Len(ctag)))
                    withText == AppendTop(stack, <<TextNode(text)>>)
                IN  IF r2.eof
                    THEN /\ stack' = withText
                         /\ p' = r1.p
                         /\ curline' = line1
                         /\ pc' = "error"
                         /\ err' = parseError(line1, "unmatched open tag", <<>>)
                         /\ UNCHANGED elems
                    ELSE IF Len(tag) = 0
                    THEN /\ stack' = withText
                         /\ p' = r2.p
                         /\ curline' = line2
                         /\ pc' = "error"
                         /\ err' = parseError(line2, "empty tag", <<>>)
                         /\ UNCHANGED elems
                    ELSE IF tag[1] \in {"#", "^"}
                    THEN /\ stack' = Append(withText,
                                            sectionElement(TrimSpace(Tail(tag)),
                                                           tag[1] = "^", line2, <<>>))
                         /\ p' = SkipNewline(data, r2.p)
                         /\ curline' = line2
                         /\ UNCHANGED <<elems, pc, err>>
                    ELSE IF tag[1] = "/"
                    THEN IF ~ClosesSection(tag, section)
                         THEN /\ stack' = withText
                              /\ p' = r2.p
                              /\ curline' = line2
                              /\ pc' = "error"
                              /\ err' = parseError(line2, "interleaved closing tag",
                                                   TrimSpace(Tail(tag)))
                              /\ UNCHANGED elems
                         ELSE LET se == withText[Len(withText)]
                                  rest == SubSeq(withText, 1, Len(withText) - 1)
                              IN  /\ p' = r2.p
                                  /\ curline' = line2
                                  /\ IF rest = <<>>
                                     THEN /\ elems' = Append(elems, se)
                                          /\ stack' = <<>>
                                     ELSE /\ stack' = AppendTop(rest, <<se>>)
                                          /\ UNCHANGED elems
                                  /\ UNCHANGED <<pc, err>>
                    ELSE /\ stack' = AppendTop(withText, TagNodes(tag))
                         /\ p' = r2.p
                         /\ curline' = line2
                         /\ UNCHANGED <<elems, pc, err>>
    /\ UNCHANGED <<data, otag, ctag>>
    /\ UNCHANGED renderVars
    /\ UNCHANGED escVars

-----------------------------------------------------------------------------
(* Values: a reflect.Value is [kind, ro, b, n, s, keys, elems, keyStr,     *)
(* addr].                                                                  *)
(*   kind    reflect.Kind: "invalid" (the zero Value), "bool", "int",      *)
(*           "string", "slice", "array", "map", "struct", "ptr",           *)
(*           "interface"                                                   *)
(*   ro      flagRO: the value was reached through an unexported field     *)
(*   b, n, s the payload of a bool, an int, a string                       *)
(*   keys    the field names of a struct, the keys of a map (sorted)       *)
(*   elems   the elements of a slice or array, the field or key values of  *)
(*           a struct or map in the order of keys, the target of a ptr or  *)
(*           interface (empty for nil)                                     *)
(*   keyStr  of a map: its key type is string                              *)
(*   addr    of a non-nil ptr: the address it holds, as its hexadecimal    *)
(*           digits 0 .. 15, most significant first; the allocator of the  *)
(*           run chooses it                                                *)
(* A value stored where Go's static type is an interface (an element of    *)
(* []interface{}, a value of map[string]interface{}) is stored as an       *)
(* "interface" value holding it, which is what Index, MapIndex and         *)
(* FieldByName return for it.                                              *)

Val(kind, b, n, s, keys, es, keyStr) ==
    [kind |-> kind, ro |-> FALSE, b |-> b, n |-> n, s |-> s,
     keys |-> keys, elems |-> es, keyStr |-> keyStr, addr |-> <<>>]

\* reflect.Value{}
Invalid == Val("invalid", FALSE, 0, <<>>, <<>>, <<>>, TRUE)
BoolV(b) == Val("bool", b, 0, <<>>, <<>>, <<>>, TRUE)
IntV(n) == Val("int", FALSE, n, <<>>, <<>>, <<>>, TRUE)
StrV(s) == Val("string", FALSE, 0, s, <<>>, <<>>, TRUE)
SliceV(es) == Val("slice", FALSE, 0, <<>>, <<>>, es, TRUE)
ArrayV(es) == Val("array", FALSE, 0, <<>>, <<>>, es, TRUE)
MapV(keys, es) == Val("map", FALSE, 0, <<>>, keys, es, TRUE)
\* a map whose key type is not string, such as map[int]string
IntKeyMapV(es) == Val("map", FALSE, 0, <<>>, <<>>, es, FALSE)
StructV(keys, es) == Val("struct", FALSE, 0, <<>>, keys, es, TRUE)
PtrV(addr, v) == [Val("ptr", FALSE, 0, <<>>, <<>>, <<v>>, TRUE) EXCEPT !.addr = addr]
NilPtr == Val("ptr", FALSE, 0, <<>>, <<>>, <<>>, TRUE)
IfaceV(v) == Val("interface", FALSE, 0, <<>>, <<>>, <<v>>, TRUE)
NilIface == Val("interface", FALSE, 0, <<>>, <<>>, <<>>, TRUE)

IsValid(v) == v.kind # "invalid"

\* a value obtained from v inherits v's flagRO
Derive(v, x, ro) == IF IsValid(x) THEN [x EXCEPT !.ro = x.ro \/ v.ro \/ ro] ELSE x

\* Value.Elem of a ptr or interface
Elem(v) == IF v.elems = <<>> THEN Invalid ELSE Derive(v, v.elems[1], FALSE)

\* Value.Index
Index(v, i) == Derive(v, v.elems[i + 1], FALSE)

KeyIndex(v, name) == CHOOSE i \in 1 .. Len(v.keys) : v.keys[i] = name
HasKey(v, name) == \E i \in 1 .. Len(v.keys) : v.keys[i] = name

\* the upper-case letters of the names of the model: a field is exported when
\* its name starts with one
UpperChars == {"A", "B", "C", "D"}

\* Value.FieldByName: a field whose name is not exported is read-only
FieldByName(v, name) ==
    IF HasKey(v, name)
    THEN Derive(v, v.elems[KeyIndex(v, name)], name = <<>> \/ name[1] \notin UpperChars)
    ELSE Invalid

\* Value.MapIndex(reflect.ValueOf(name)) panics when a string is not
\* assignable to the map's key type
MapIndexPanics(v) == ~v.keyStr
MapIndex(v, name) ==
    IF HasKey(v, name) THEN Derive(v, v.elems[KeyIndex(v, name)], FALSE) ELSE Invalid

\* Value.Interface panics on a value reached through an unexported field
InterfacePanics(v) == v.ro

\* reflect.Indirect: one pointer, and nothing else, is dereferenced
ReflectIndirect(v) == IF v.kind = "ptr" THEN Elem(v) ELSE v

RECURSIVE indirect(_)
indirect(v) ==
    IF IsValid(v) /\ v.kind \in {"ptr", "interface"} THEN indirect(Elem(v)) ELSE v

\* strings.Contains(name, ".") and strings.SplitN(name, ".", 2)
ContainsDot(name) == \E i \in 1 .. Len(name) : name[i] = "."
FirstDot(name) == CHOOSE i \in 1 .. Len(name) :
                      name[i] = "." /\ \A j \in 1 .. i - 1 : name[j] # "."

\* lookup's scan of the chain from entry i (1-based) for a name that is "."
\* or holds no dot; a panic is recovered and the zero Value returned
RECURSIVE lookupScan(_, _, _)
lookupScan(contextChain, i, name) ==
    IF i > Len(contextChain)
    THEN Invalid
    ELSE LET ctx == ReflectIndirect(contextChain[i])
         IN  IF ~IsValid(ctx)
             THEN lookupScan(contextChain, i + 1, name)
             ELSE IF name = <<".">>
             THEN ctx
             ELSE IF ctx.kind = "struct"
             THEN IF IsValid(FieldByName(ctx, name))
                  THEN FieldByName(ctx, name)
                  ELSE lookupScan(contextChain, i + 1, name)
             ELSE IF ctx.kind = "map"
             THEN IF MapIndexPanics(ctx)
                  THEN Invalid
                  ELSE IF IsValid(MapIndex(ctx, name))
                  THEN MapIndex(ctx, name)
                  ELSE lookupScan(contextChain, i + 1, name)
             ELSE lookupScan(contextChain, i + 1, name)

RECURSIVE lookup(_, _)
lookup(contextChain, name) ==
    IF name # <<".">> /\ ContainsDot(name)
    THEN LET d == FirstDot(name)
             v == lookup(contextChain, SubSeq(name, 1, d - 1))
         IN  lookup(<<v>>, SubSeq(name, d + 1, Len(name)))
    ELSE lookupScan(contextChain, 1, name)

\* isEmpty panics in v.Interface()
isEmptyPanics(v) == IsValid(v) /\ InterfacePanics(v)

\* v.Interface() == nil: only a nil interface value
InterfaceIsNil(v) == v.kind = "interface" /\ v.elems = <<>>

isEmpty(v) ==
    IF ~IsValid(v) \/ InterfaceIsNil(v)
    THEN TRUE
    ELSE LET val == indirect(v)
         IN  IF ~IsValid(val) THEN TRUE
             ELSE IF val.kind = "bool" THEN ~val.b
             ELSE IF val.kind = "slice" THEN Len(val.elems) = 0
             ELSE FALSE

-----------------------------------------------------------------------------
(* fmt.Sprint of val.Interface(), for the kinds of the model.              *)

Digits == <<"0", "1", "2", "3", "4", "5", "6", "7", "8", "9">>

RECURSIVE NatStr(_)
NatStr(n) == IF n < 10 THEN <<Digits[n + 1]>> ELSE NatStr(n \div 10) \o <<Digits[(n % 10) + 1]>>

IntStr(n) == IF n < 0 THEN <<"-">> \o NatStr(-n) ELSE NatStr(n)

HexDigits == <<"0", "1", "2", "3", "4", "5", "6", "7", "8", "9",
               "a", "b", "c", "d", "e", "f">>

\* the text of a non-nil pointer printed as an address: 0x and the address
\* in lowercase hexadecimal
AddressText(v) == <<"0", "x">> \o [i \in 1 .. Len(v.addr) |-> HexDigits[v.addr[i] + 1]]

RECURSIVE SprintAt(_, _)
RECURSIVE SprintJoin(_, _, _)
\* the values of es (with their keys, for a map) separated by spaces
SprintJoin(keys, es, i) ==
    IF i > Len(es)
    THEN <<>>
    ELSE (IF i > 1 THEN <<" ">> ELSE <<>>)
         \o (IF keys # <<>> THEN keys[i] \o <<":">> ELSE <<>>)
         \o SprintAt(es[i], 1)
         \o SprintJoin(keys, es, i + 1)

SprintAt(v, depth) ==
    CASE v.kind = "invalid" -> <<"<", "n", "i", "l", ">">>
      [] v.kind = "bool" -> IF v.b THEN <<"t", "r", "u", "e">> ELSE <<"f", "a", "l", "s", "e">>
      [] v.kind = "int" -> IntStr(v.n)
      [] v.kind = "string" -> v.s
      [] v.kind \in {"slice", "array"} -> <<"[">> \o SprintJoin(<<>>, v.elems, 1) \o <<"]">>
      [] v.kind = "map" ->
            <<"m", "a", "p", "[">>
            \o SprintJoin(IF v.keyStr THEN v.keys ELSE [i \in 1 .. Len(v.elems) |-> IntStr(i)],
                          v.elems, 1)
            \o <<"]">>
      [] v.kind = "struct" -> <<"{">> \o SprintJoin(<<>>, v.elems, 1) \o <<"}">>
      [] v.kind = "interface" ->
            IF v.elems = <<>> THEN <<"<", "n", "i", "l", ">">> ELSE SprintAt(v.elems[1], depth)
      [] v.kind = "ptr" ->
            IF v.elems = <<>> THEN <<"<", "n", "i", "l", ">">>
            ELSE IF depth = 0 /\ v.elems[1].kind \in {"struct", "slice", "array", "map"}
            THEN <<"&">> \o SprintAt(v.elems[1], 1)
            ELSE AddressText(v)

Sprint(v) == SprintAt(v, 0)

-----------------------------------------------------------------------------
(* The renderer. *)

Procs == {1, 2}

\* a varElement written escaped when raw and raw when not
VarOutputSwapped(elem, contextChain) ==
    LET val == lookup(contextChain, elem.name)
    IN  IF IsValid(val) /\ ~InterfacePanics(val)
        THEN IF elem.raw THEN htmlEscape(Sprint(val)) ELSE Sprint(val)
        ELSE <<>>

\* what renderElement writes for a *varElement; a panic of val.Interface()
\* is recovered by renderElement before anything is written
VarOutput(elem, contextChain) ==
    LET val == lookup(contextChain, elem.name)
    IN  IF IsValid(val) /\ ~InterfacePanics(val)
        THEN IF elem.raw THEN Sprint(val) ELSE htmlEscape(Sprint(val))
        ELSE <<>>

\* renderSection up to its loop: [panic, contexts], the contexts the body is
\* rendered with (none when the section is skipped), or the panic of isEmpty,
\* which nothing recovers
SectionContexts(section, contextChain) ==
    LET value == lookup(contextChain, section.name)
        context == IF Len(contextChain) > 0
                   THEN contextChain[Len(contextChain)]
                   ELSE Invalid
    IN  IF isEmptyPanics(value)
        THEN [panic |-> TRUE, contexts |-> <<>>]
        ELSE IF (isEmpty(value) /\ ~section.inverted) \/ (~isEmpty(value) /\ section.inverted)
        THEN [panic |-> FALSE, contexts |-> <<>>]
        ELSE IF ~section.inverted
        THEN LET val == indirect(value)
             IN  IF val.kind \in {"slice", "array"}
                 THEN [panic |-> FALSE,
                       contexts |-> [i \in 1 .. Len(val.elems) |-> Index(val, i - 1)]]
                 ELSE IF val.kind \in {"map", "struct"}
                 THEN [panic |-> FALSE, contexts |-> <<value>>]
                 ELSE [panic |-> FALSE, contexts |-> <<context>>]
        ELSE [panic |-> FALSE, contexts |-> <<context>>]

\* renderElement, renderSection and renderTemplate as the functions they are:
\* [panic, out], the bytes written and whether a panic left the call
RECURSIVE renderElement(_, _)
RECURSIVE renderElements(_, _, _)
RECURSIVE renderSectionLoop(_, _, _, _)

\* the loop over section.elems, or tmpl.elems, from element i
renderElements(es, i, contextChain) ==
    IF i > Len(es)
    THEN [panic |-> FALSE, out |-> <<>>]
    ELSE LET h == renderElement(es[i], contextChain)
         IN  IF h.panic
             THEN h
             ELSE LET t == renderElements(es, i + 1, contextChain)
                  IN  [panic |-> t.panic, out |-> h.out \o t.out]

\* renderSection's loop over contexts from context ci, chain2 being the
\* context followed by the caller's chain
renderSectionLoop(section, contexts, ci, contextChain) ==
    IF ci > Len(contexts)
    THEN [panic |-> FALSE, out |-> <<>>]
    ELSE LET h == renderElements(section.elems, 1, <<contexts[ci]>> \o contextChain)
         IN  IF h.panic
             THEN h
             ELSE LET t == renderSectionLoop(section, contexts, ci + 1, contextChain)
                  IN  [panic |-> t.panic, out |-> h.out \o t.out]

renderSection(section, contextChain) ==
    LET sc == SectionContexts(section, contextChain)
    IN  IF sc.panic
        THEN [panic |-> TRUE, out |-> <<>>]
        ELSE renderSectionLoop(section, sc.contexts, 1, contextChain)

renderElement(element, contextChain) ==
    CASE element.type = "text" -> [panic |-> FALSE, out |-> element.text]
      [] element.type = "var" -> [panic |-> FALSE, out |-> VarOutput(element, contextChain)]
      [] element.type = "section" -> renderSection(element, contextChain)

renderTemplate(es, contextChain) == renderElements(es, 1, contextChain)

\* A frame of a Render call's stack: renderTemplate's loop (type "template")
\* or renderSection's loops over contexts and section.elems (type
\* "section"); i is the next element (1-based), chain the chain handed to
\* renderElement (chain2 in renderSection), ci the current context.
TemplateFrame(contextChain) ==
    [type |-> "template", section |-> TextNode(<<>>), i |-> 1,
     chain |-> contextChain, contexts |-> <<>>, ci |-> 0]
SectionFrame(section, contexts, contextChain) ==
    [type |-> "section", section |-> section, i |-> 1,
     chain |-> <<contexts[1]>> \o contextChain, contexts |-> contexts, ci |-> 1]

\* the elements a frame loops over: tmpl.elems is read from the Template
FrameElems(f) == IF f.type = "template" THEN elems ELSE f.section.elems

Top(r) == rstack[r][Len(rstack[r])]
SetTop(r, f) == [rstack EXCEPT ![r][Len(rstack[r])] = f]
NextElem(f) == [f EXCEPT !.i = f.i + 1]

\* Render with one buffer shared by every call (a package-level buf), which
\* each call starts by emptying
RenderSharedBuf(r) ==
    /\ pc = "done"
    /\ rpc[r] = "idle"
    /\ rpc' = [rpc EXCEPT ![r] = "running"]
    /\ rstack' = [rstack EXCEPT ![r] = <<TemplateFrame(rctx[r])>>]
    /\ buf' = [q \in Procs |-> <<>>]
    /\ UNCHANGED rctx
    /\ UNCHANGED tmplVars
    /\ UNCHANGED escVars

\* Template.Render is called with the contexts rctx[r] on a parsed Template.
Render(r) ==
    /\ pc = "done"
    /\ rpc[r] = "idle"
    /\ rpc' = [rpc EXCEPT ![r] = "running"]
    /\ rstack' = [rstack EXCEPT ![r] = <<TemplateFrame(rctx[r])>>]
    /\ buf' = [buf EXCEPT ![r] = <<>>]
    /\ UNCHANGED rctx
    /\ UNCHANGED tmplVars
    /\ UNCHANGED escVars

\* renderElement on the next element of the innermost loop: a text or a
\* variable is written; a section is entered (renderSection computes its
\* contexts and starts its first pass), skipped, or panics out of Render.
renderElementStep(r) ==
    /\ rpc[r] = "running"
    /\ Top(r).i <= Len(FrameElems(Top(r)))
    /\ LET f == Top(r)
           element == FrameElems(f)[f.i]
       IN  CASE element.type = "text" ->
                  /\ buf' = [buf EXCEPT ![r] = @ \o element.text]
                  /\ rstack' = SetTop(r, NextElem(f))
                  /\ UNCHANGED rpc
             [] element.type = "var" ->
                  /\ buf' = [buf EXCEPT ![r] = @ \o VarOutput(element, f.chain)]
                  /\ rstack' = SetTop(r, NextElem(f))
                  /\ UNCHANGED rpc
             [] element.type = "section" ->
                  LET sc == SectionContexts(element, f.chain)
                  IN  IF sc.panic
                      THEN /\ rpc' = [rpc EXCEPT ![r] = "panicked"]
                           /\ rstack' = [rstack EXCEPT ![r] = <<>>]
                           /\ UNCHANGED buf
                      ELSE IF sc.contexts = <<>>
                      THEN /\ rstack' = SetTop(r, NextElem(f))
                           /\ UNCHANGED <<buf, rpc>>
                      ELSE /\ rstack' = [rstack EXCEPT ![r] =
                                            Append(@, SectionFrame(element, sc.contexts, f.chain))]
                           /\ UNCHANGED <<buf, rpc>>
    /\ UNCHANGED rctx
    /\ UNCHANGED tmplVars
    /\ UNCHANGED escVars

\* The end of a pass of renderSection over section.elems: the next context
\* is put in chain2[0], or renderSection returns to the loop that called it.
renderSectionNext(r) ==
    /\ rpc[r] = "running"
    /\ Top(r).type = "section"
    /\ Top(r).i > Len(FrameElems(Top(r)))
    /\ LET f == Top(r)
       IN  IF f.ci < Len(f.contexts)
           THEN rstack' = SetTop(r, [f EXCEPT !.ci = f.ci + 1, !.i = 1,
                                              !.chain[1] = f.contexts[f.ci + 1]])
           ELSE LET rest == SubSeq(rstack[r], 1, Len(rstack[r]) - 1)
                IN  rstack' = [rstack EXCEPT ![r] =
                                  [rest EXCEPT ![Len(rest)] = NextElem(rest[Len(rest)])]]
    /\ UNCHANGED <<rctx, buf, rpc>>
    /\ UNCHANGED tmplVars
    /\ UNCHANGED escVars

\* renderTemplate is through tmpl.elems and Render returns buf.String().
RenderReturn(r) ==
    /\ rpc[r] = "running"
    /\ Top(r).type = "template"
    /\ Top(r).i > Len(FrameElems(Top(r)))
    /\ rpc' = [rpc EXCEPT ![r] = "done"]
    /\ rstack' = [rstack EXCEPT ![r] = <<>>]
    /\ UNCHANGED <<rctx, buf>>
    /\ UNCHANGED tmplVars
    /\ UNCHANGED escVars

-----------------------------------------------------------------------------
(* The parser specification: ParseString on every template of at most      *)
(* MaxTokens tokens.                                                       *)

Tokens ==
    { <<"{", "{", "#", "a", "}", "}">>,
      <<"{", "{", "/", "a", "}", "}">>,
      <<"{", "{", "^", "b", "}", "}">>,
      <<"{", "{", "/", " ", "b", " ", "}", "}">>,
      <<"\n">>,
      <<"\r">>,
      <<"{", "{">>,
      <<"}", "}">>,
      <<"{", "a", "}">>,
      <<"&", "a">>,
      <<"a">> }

TokenSeqs == UNION { [1 .. n -> Tokens] : n \in 0 .. MaxTokens }

ParseInputs == { Concat(ts) : ts \in TokenSeqs }

\* ParseString's Template{data, "{{", "}}", 0, 1, []interface{}{}}
TemplateInit(d) ==
    /\ data = d
    /\ otag = <<"{", "{">>
    /\ ctag = <<"}", "}">>
    /\ p = 0
    /\ curline = 1
    /\ elems = <<>>
    /\ stack = <<>>
    /\ pc = "parse"
    /\ err = NoError

\* no Render call is made
RenderIdle ==
    /\ rctx = [r \in Procs |-> <<>>]
    /\ rstack = [r \in Procs |-> <<>>]
    /\ buf = [r \in Procs |-> <<>>]
    /\ rpc = [r \in Procs |-> "off"]

EscIdle ==
    /\ esc_in = <<>>
    /\ esc_out = <<>>
    /\ esc_pass = 0

InitParse ==
    /\ \E d \in ParseInputs : TemplateInit(d)
    /\ RenderIdle
    /\ EscIdle

NextParse == parse \/ parseSection

SpecParse == InitParse /\ [][NextParse]_vars

-----------------------------------------------------------------------------
(* The rendering specification: a template is parsed, then rendered by one *)
(* call with any chain of at most MaxRoots root contexts, or by two        *)
(* concurrent calls.                                                       *)

Tag(body) == <<"{", "{">> \o body \o <<"}", "}">>

RenderTemplates ==
    { \* {{#A}}{{B}}{{{B}}}{{/A}}{{^A}}{{&B}}!{{/A}}z
      Tag(<<"#", "A">>) \o Tag(<<"B">>) \o Tag(<<"{", "B", "}">>) \o Tag(<<"/", "A">>)
        \o Tag(<<"^", "A">>) \o Tag(<<"&", "B">>) \o <<"!">> \o Tag(<<"/", "A">>) \o <<"z">>,
      \* {{#A}}{{#C}}{{B}}{{/C}}{{^D}}{{B}}{{/D}}{{/A}}
      Tag(<<"#", "A">>) \o Tag(<<"#", "C">>) \o Tag(<<"B">>) \o Tag(<<"/", "C">>)
        \o Tag(<<"^", "D">>) \o Tag(<<"B">>) \o Tag(<<"/", "D">>) \o Tag(<<"/", "A">>),
      \* {{!c}}{{a}}{{#a}}x{{/a}}y
      Tag(<<"!", "c">>) \o Tag(<<"a">>) \o Tag(<<"#", "a">>) \o <<"x">> \o Tag(<<"/", "a">>) \o <<"y">>,
      \* {{A.B}}|{{#A}}{{.}}{{/A}}
      Tag(<<"A", ".", "B">>) \o <<"|">> \o Tag(<<"#", "A">>) \o Tag(<<".">>) \o Tag(<<"/", "A">>),
      \* {{#C}}{{B}}{{/C}}{{^D}}{{B}}{{/D}}
      Tag(<<"#", "C">>) \o Tag(<<"B">>) \o Tag(<<"/", "C">>)
        \o Tag(<<"^", "D">>) \o Tag(<<"B">>) \o Tag(<<"/", "D">>) }

\* struct{A bool; B string; C int}
cScalar == StructV(<<<<"A">>, <<"B">>, <<"C">>>>,
                   <<BoolV(TRUE), StrV(<<"<", "a", "&", "b", ">">>), IntV(7)>>)
\* struct{A []map[string]string; B string}: a list of three elements
cList == StructV(<<<<"A">>, <<"B">>>>,
                 <<SliceV(<<MapV(<<<<"B">>>>, <<StrV(<<"x">>)>>),
                            MapV(<<<<"B">>>>, <<StrV(<<"\"", "'">>)>>),
                            MapV(<<>>, <<>>)>>),
                   StrV(<<"o">>)>>)
\* *struct{A []struct{B string; C bool}; B string}
cNest(addr) ==
    PtrV(addr, StructV(<<<<"A">>, <<"B">>>>,
                       <<SliceV(<<StructV(<<<<"B">>, <<"C">>>>,
                                          <<StrV(<<"e">>), BoolV(TRUE)>>)>>),
                         StrV(<<"r">>)>>))
\* map[string]interface{}{"A": []interface{}{map[string]interface{}{"B": "i"}},
\*                        "B": "o", "C": nil}
cIface == MapV(<<<<"A">>, <<"B">>, <<"C">>>>,
               <<IfaceV(SliceV(<<IfaceV(MapV(<<<<"B">>>>, <<IfaceV(StrV(<<"i">>))>>))>>)),
                 IfaceV(StrV(<<"o">>)),
                 NilIface>>)
\* struct{A [0]int; a bool}: a zero-length array and an unexported field
cHidden == StructV(<<<<"A">>, <<"a">>>>, <<ArrayV(<<>>), BoolV(TRUE)>>)
\* map[int]string{1: "v"}
cIntMap == IntKeyMapV(<<StrV(<<"v">>)>>)
\* struct{A []int; B int}: an empty slice
cEmpty == StructV(<<<<"A">>, <<"B">>>>, <<SliceV(<<>>), IntV(42)>>)
\* map[string]bool{"A": false, "C": true, "a": true}
cFalse == MapV(<<<<"A">>, <<"C">>, <<"a">>>>, <<BoolV(FALSE), BoolV(TRUE), BoolV(TRUE)>>)

\* struct{A *int; B *int}: two pointers to distinct variables
cAddr(addrA, addrB) ==
    StructV(<<<<"A">>, <<"B">>>>, <<PtrV(addrA, IntV(1)), PtrV(addrB, IntV(2))>>)

\* the addresses a run may give the variables the contexts point to
\* (0xc00001c0a8, 0xc000012340)
Addresses == { <<12, 0, 0, 0, 0, 1, 12, 0, 10, 8>>, <<12, 0, 0, 0, 0, 1, 2, 3, 4, 0>> }

\* reflect.ValueOf of the root contexts; reflect.ValueOf(nil) is the zero Value
RootContexts ==
    {cScalar, cList, cIface, cHidden, cIntMap, cEmpty, cFalse, NilPtr, Invalid}
    \cup { cNest(a) : a \in Addresses }
    \cup UNION { { cAddr(a, b) : b \in Addresses \ {a} } : a \in Addresses }

\* the most root contexts handed to one Render call
MaxRoots == 2

RootChains == UNION { [1 .. n -> RootContexts] : n \in 0 .. MaxRoots }

\* the chains of the concurrent calls
ConcChains == { <<cList>>, <<cHidden>> } \cup { <<cNest(a), cScalar>> : a \in Addresses }

InitRender ==
    /\ \E d \in RenderTemplates : TemplateInit(d)
    /\ \/ /\ rctx \in [Procs -> RootChains]
          /\ rctx[2] = <<>>
          /\ rpc = [r \in Procs |-> IF r = 1 THEN "idle" ELSE "off"]
       \/ /\ rctx \in [Procs -> ConcChains]
          /\ rpc = [r \in Procs |-> "idle"]
    /\ rstack = [r \in Procs |-> <<>>]
    /\ buf = [r \in Procs |-> <<>>]
    /\ EscIdle

Next ==
    \/ parse
    \/ parseSection
    \/ \E r \in Procs : Render(r)
    \/ \E r \in Procs : renderElementStep(r)
    \/ \E r \in Procs : renderSectionNext(r)
    \/ \E r \in Procs : RenderReturn(r)

Spec == InitRender /\ [][Next]_vars

-----------------------------------------------------------------------------
(* The escaping specification: htmlEscape on every string of at most       *)
(* MaxEscLen characters, and on what it wrote.                             *)

EscChars == {"\"", "'", "&", "<", ">", "a", ";"}

EscInputs == UNION { [1 .. n -> EscChars] : n \in 0 .. MaxEscLen }

InitEscape ==
    /\ TemplateInit(<<>>)
    /\ RenderIdle
    /\ esc_in \in EscInputs
    /\ esc_out = <<>>
    /\ esc_pass = 0

\* htmlEscape(w, esc_in) on an empty writer
EscapeCall ==
    /\ esc_pass = 0
    /\ esc_out' = htmlEscape(esc_in)
    /\ esc_pass' = 1
    /\ UNCHANGED esc_in
    /\ UNCHANGED tmplVars
    /\ UNCHANGED renderVars

\* htmlEscape on what the first call wrote
EscapeAgain ==
    /\ esc_pass = 1
    /\ esc_out' = htmlEscape(esc_out)
    /\ esc_pass' = 2
    /\ UNCHANGED esc_in
    /\ UNCHANGED tmplVars
    /\ UNCHANGED renderVars

NextEscape == EscapeCall \/ EscapeAgain

SpecEscape == InitEscape /\ [][NextEscape]_vars

-----------------------------------------------------------------------------
(* Claims. *)

ReservedChars == {"\"", "'", "&", "<", ">"}
HasReserved(s) == \E i \in 1 .. Len(s) : s[i] \in ReservedChars

\* the entity the spec gives for a reserved character, the character itself
\* for any other
EntityOf(c) ==
    CASE c = "\"" -> <<"&", "q", "u", "o", "t", ";">>
      [] c = "'" -> <<"&", "a", "p", "o", "s", ";">>
      [] c = "&" -> <<"&", "a", "m", "p", ";">>
      [] c = "<" -> <<"&", "l", "t", ";">>
      [] c = ">" -> <<"&", "g", "t", ";">>
      [] OTHER -> <<c>>

\* a string with every character replaced by its entity, in order
Escaped(s) == Concat([i \in 1 .. Len(s) |-> EntityOf(s[i])])

\* call r takes a step from this state to the next
Steps(r) == rstack'[r] # rstack[r] \/ rpc'[r] # rpc[r]

\* call r is about to render an element of the given type
AtElement(r, type) ==
    /\ rpc[r] = "running"
    /\ Top(r).i <= Len(FrameElems(Top(r)))
    /\ FrameElems(Top(r))[Top(r).i].type = type

NextElement(r) == FrameElems(Top(r))[Top(r).i]

\* C4: rendering a found Variable node appends the stringified value as it
\* is when raw, and with each of the five reserved characters replaced by its
\* entity, every other character kept in place, when not raw.
C4_VariableOutput ==
    [][\A r \in Procs :
          (AtElement(r, "var") /\ Steps(r)) =>
              LET e == NextElement(r)
                  val == lookup(Top(r).chain, e.name)
              IN  (IsValid(val) /\ ~val.ro) =>
                      buf'[r] = buf[r] \o (IF e.raw THEN Sprint(val) ELSE Escaped(Sprint(val)))]_vars

\* C4 witness: {{B}}{{{B}}} has been rendered for B = "<a&b>", escaped and raw.
C4_Witness ==
    /\ rpc[1] = "done"
    /\ rctx[1] = <<cScalar>>
    /\ buf[1] = <<"&", "l", "t", ";", "a", "&", "a", "m", "p", ";", "b", "&", "g", "t", ";",
                  "<", "a", "&", "b", ">", "z">>

\* C5 as stated: escaping what escaping wrote changes nothing.
C5_Idempotent == esc_pass = 2 => esc_out = htmlEscape(esc_in)

\* C5 amended: escaping is idempotent on a string exactly when the string holds
\* none of the five reserved characters; the & of every entity is escaped again.
C5_IdempotentIffNoReserved ==
    /\ esc_pass >= 1 => (~HasReserved(esc_in) => esc_out = esc_in)
    /\ esc_pass = 2 => (esc_out = htmlEscape(esc_in) <=> ~HasReserved(esc_in))

\* C5 witness: a string with a reserved character was escaped twice, and the
\* second pass changed it.
C5_Witness ==
    /\ esc_pass = 2
    /\ esc_in = <<"<", "a", "&">>
    /\ esc_out # htmlEscape(esc_in)

\* the state of call r that only r writes
Local(r) == <<rstack[r], buf[r], rpc[r]>>

\* C9: rendering never changes the parsed Template (its nodes, delimiters and
\* parser fields), a step of one Render call writes nothing of another call,
\* and a call that returns has written what it writes when run alone on its
\* contexts.
C9_RenderIsolation ==
    [][pc = "done" =>
          /\ tmplVars' = tmplVars
          /\ \A r, q \in Procs : (r # q /\ Local(r)' # Local(r)) => Local(q)' = Local(q)
          /\ \A r \in Procs :
                /\ rpc'[r] = "done" =>
                      /\ ~renderTemplate(elems, rctx[r]).panic
                      /\ buf'[r] = renderTemplate(elems, rctx[r]).out
                /\ rpc'[r] = "panicked" => renderTemplate(elems, rctx[r]).panic]_vars

\* C9 witness: two concurrent calls on different contexts have both returned
\* output.
C9_Witness ==
    /\ rpc[1] = "done" /\ rpc[2] = "done"
    /\ rctx[1] = <<cList>> /\ \E a \in Addresses : rctx[2] = <<cNest(a), cScalar>>
    /\ buf[1] # <<>> /\ buf[2] # <<>>
    /\ buf[1] # buf[2]

\* the value an entry of a chain stands for: what is behind its pointers and
\* interfaces
RECURSIVE Unwrapped(_)
Unwrapped(v) ==
    IF v.kind \in {"ptr", "interface"} /\ v.elems # <<>>
    THEN Unwrapped(Derive(v, v.elems[1], FALSE))
    ELSE v

\* an entry is a record with that field or a mapping with that key
Provides(v, name) ==
    /\ Unwrapped(v).kind \in {"struct", "map"}
    /\ \E i \in 1 .. Len(Unwrapped(v).keys) : Unwrapped(v).keys[i] = name

\* the value the entry holds under the name
Held(v, name) ==
    LET u == Unwrapped(v)
        i == CHOOSE i \in 1 .. Len(u.keys) : u.keys[i] = name
    IN  Derive(u, u.elems[i], u.kind = "struct" /\ name[1] \notin UpperChars)

\* the value of the nearest entry of the chain that provides the name, the
\* zero Value (not-found) when none does
Nearest(chain, name) ==
    IF \E i \in 1 .. Len(chain) : Provides(chain[i], name)
    THEN LET i == CHOOSE i \in 1 .. Len(chain) :
                     /\ Provides(chain[i], name)
                     /\ \A j \in 1 .. i - 1 : ~Provides(chain[j], name)
         IN  Held(chain[i], name)
    ELSE Invalid

\* the plain names of the templates, and all their names
PlainNames == {<<"A">>, <<"B">>, <<"C">>, <<"D">>, <<"a">>}
AllNames == PlainNames \cup {<<".">>, <<"A", ".", "B">>}

\* the section frames of call r: the positions above the template's frame
SectionFrames(r) == 2 .. Len(rstack[r])

\* the value the section of frame d resolved to, against its caller's chain
Resolved(r, d) == lookup(rstack[r][d - 1].chain, rstack[r][d].section.name)

\* the spec's emptiness: not-found, nothing behind the indirections, false, or
\* a list or array of no elements
SpecEmpty(v) ==
    \/ ~IsValid(v)
    \/ ~IsValid(Unwrapped(v))
    \/ Unwrapped(v).kind \in {"ptr", "interface"}
    \/ Unwrapped(v).kind = "bool" /\ ~Unwrapped(v).b
    \/ Unwrapped(v).kind \in {"slice", "array"} /\ Unwrapped(v).elems = <<>>

\* a section that renders without a new data context: inverted, or over a
\* truthy value that is no list, array, map or record
NoNewContext(r, d) ==
    \/ rstack[r][d].section.inverted
    \/ Unwrapped(Resolved(r, d)).kind \notin {"slice", "array", "map", "struct"}

\* C1: a section that renders without a new data context renders its body
\* once, and every name resolves in the body as it does just outside the
\* section, at any depth and for any number of root contexts.
C1_EnclosingContext ==
    \A r \in Procs : \A d \in SectionFrames(r) :
        NoNewContext(r, d) =>
            /\ Len(rstack[r][d].contexts) = 1
            /\ \A name \in AllNames :
                  lookup(rstack[r][d].chain, name) = lookup(rstack[r][d - 1].chain, name)

\* C2: a non-inverted section over a list of n >= 1 elements renders its body
\* n times in element order, pass i on the chain of element i followed by the
\* enclosing chain, so that a name resolves to what the element holds under it
\* and to what it resolves to outside only when the element does not provide
\* it.
C2_ListIteration ==
    \A r \in Procs : \A d \in SectionFrames(r) :
        LET f == rstack[r][d]
            val == Unwrapped(Resolved(r, d))
        IN  (~f.section.inverted /\ val.kind \in {"slice", "array"}) =>
                /\ Len(f.contexts) = Len(val.elems)
                /\ \A i \in 1 .. Len(val.elems) : f.contexts[i] = Derive(val, val.elems[i], FALSE)
                /\ f.ci \in 1 .. Len(f.contexts)
                /\ f.chain = <<f.contexts[f.ci]>> \o rstack[r][d - 1].chain
                /\ \A name \in PlainNames :
                      lookup(f.chain, name) =
                          IF Provides(f.contexts[f.ci], name)
                          THEN Held(f.contexts[f.ci], name)
                          ELSE lookup(rstack[r][d - 1].chain, name)

\* C3: a value is empty iff it is not-found, has nothing behind its
\* indirections, is false, or is a list or array of no elements; over an empty
\* value a section renders its body no times and the inverted section once,
\* and over any other value the inverted section renders nothing.
C3_EmptinessRule ==
    [][\A r \in Procs :
          (AtElement(r, "section") /\ Steps(r)) =>
              LET e == NextElement(r)
                  v == lookup(Top(r).chain, e.name)
                  entered == Len(rstack'[r]) = Len(rstack[r]) + 1
              IN  /\ (SpecEmpty(v) /\ ~e.inverted) => ~entered
                  /\ (SpecEmpty(v) /\ e.inverted) =>
                        entered /\ Len(rstack'[r][Len(rstack'[r])].contexts) = 1
                  /\ (~SpecEmpty(v) /\ e.inverted) => ~entered]_vars

\* C8: no failure of the name resolution of a Variable or Section node aborts
\* Render: the node writes nothing and the render goes on to its end.
C8_NoRenderAbort == \A r \in Procs : rpc[r] # "panicked"

\* C10: a plain name resolves to the value held under it by the nearest entry
\* of the chain that is a record with that field or a mapping with that key,
\* and to not-found exactly when no entry provides it.
C10_NearestProvider ==
    \A r \in Procs : \A d \in 1 .. Len(rstack[r]) : \A name \in PlainNames :
        lookup(rstack[r][d].chain, name) = Nearest(rstack[r][d].chain, name)

\* pat occurs in d at offset i (0-based)
Occurs(d, pat, i) ==
    /\ i + Len(pat) <= Len(d)
    /\ \A j \in 1 .. Len(pat) : d[i + j] = pat[j]

\* the offset of the first occurrence of pat in d at or after from, -1 if none
FirstAt(d, pat, from) ==
    IF \E i \in from .. Len(d) : Occurs(d, pat, i)
    THEN CHOOSE i \in from .. Len(d) :
             Occurs(d, pat, i) /\ \A k \in from .. i - 1 : ~Occurs(d, pat, k)
    ELSE -1

\* the next tag after the cursor: where it opens (-1: no open tag is left),
\* where its close sequence starts (-1: there is none), and its trimmed body
TagOpen == FirstAt(data, <<"{", "{">>, p)
TagTriple == TagOpen + 2 < Len(data) /\ data[TagOpen + 3] = "{"
TagClose ==
    IF TagOpen = -1 THEN -1
    ELSE FirstAt(data, IF TagTriple THEN <<"}", "}", "}">> ELSE <<"}", "}">>, TagOpen + 2)
TagBody ==
    TrimSpace(SubSeq(data, TagOpen + 3, IF TagTriple THEN TagClose + 1 ELSE TagClose))

\* the next tag is a closing tag, and the name it closes
IsClosingTag == TagOpen # -1 /\ TagClose # -1 /\ TagBody # <<>> /\ TagBody[1] = "/"
ClosingName == TrimSpace(Tail(TagBody))

\* the malformations of the claim, at the cursor
NoCloseSequence == TagOpen # -1 /\ TagClose = -1
EmptyTagBody == TagOpen # -1 /\ TagClose # -1 /\ TagBody = <<>>
CloseAtTopLevel == IsClosingTag /\ stack = <<>>
CloseOfOtherName == IsClosingTag /\ stack # <<>> /\ ClosingName # stack[Len(stack)].name
EndInsideSection == TagOpen = -1 /\ stack # <<>>
Malformed ==
    NoCloseSequence \/ EmptyTagBody \/ CloseAtTopLevel \/ CloseOfOtherName \/ EndInsideSection

\* the Section nodes among the top-level nodes
TopSections(es) == {i \in 1 .. Len(es) : es[i].type = "section"}

\* C6: ParseString returns a Template only at the end of the input with no
\* section open, a section is completed (and only then put in the tree) by a
\* closing tag of its own name read while it is the innermost open section,
\* and each malformation (no close sequence, a closing tag at top level or of
\* another name, an empty tag body, the end of the input inside a section)
\* ends parsing at once with an error and no Template.
C6_WellNested ==
    [][/\ pc = "parse"
       /\ pc' = "done" => (stack = <<>> /\ TagOpen = -1)
       /\ Malformed <=> pc' = "error"
       /\ NoCloseSequence => err'.message = "unmatched open tag"
       /\ EmptyTagBody => err'.message = "empty tag"
       /\ CloseAtTopLevel => err'.message = "unmatched close tag"
       /\ CloseOfOtherName =>
             err'.message = "interleaved closing tag" /\ err'.name = ClosingName
       /\ EndInsideSection =>
             err'.message = "has no closing tag" /\ err'.name = stack[Len(stack)].name
       /\ Len(stack') < Len(stack) =>
             /\ IsClosingTag
             /\ ClosingName = stack[Len(stack)].name
             /\ Len(stack') = Len(stack) - 1
       /\ TopSections(elems') # TopSections(elems) =>
             /\ Len(stack) = 1 /\ stack' = <<>>
             /\ elems'[Len(elems')].name = ClosingName]_vars

\* C6 witness: a Template was returned whose tree holds a section nested in a
\* section, each closed by its own closing tag.
C6_Witness ==
    /\ pc = "done"
    /\ \E i \in 1 .. Len(elems) :
          /\ elems[i].type = "section"
          /\ elems[i].name = <<"a">>
          /\ \E j \in 1 .. Len(elems[i].elems) :
                /\ elems[i].elems[j].type = "section"
                /\ elems[i].elems[j].name = <<"b">>

\* the newline characters of d before offset q
NewlinesBefore(d, q) == Cardinality({i \in 1 .. q : d[i] = "\n"})

\* C7: throughout parsing the line counter is 1 plus the number of newlines
\* before the cursor, and a parse error detected at the cursor carries that
\* line, also after section tags that a line terminator follows.
C7_LineCounter ==
    /\ curline = 1 + NewlinesBefore(data, p)
    /\ (pc = "error" /\ err.message # "has no closing tag") =>
          err.line = 1 + NewlinesBefore(data, p)

=============================================================================
